---- MODULE Spec2Model ----
(***************************************************************************)
(* Model of the WebGL particle engine of particle-prototype:               *)
(*   src/src/components/OrganicParticlesGL.tsx  (engine component)         *)
(*   src/src/components/HeroChipsToButton.tsx   (host that feeds it props) *)
(*                                                                         *)
(* Units.  Lengths are integers in 1/20 px (5 px = 100, 2.4 px = 48).      *)
(* Progress is an integer in 1/10000 (0.95 = 9500, 0.0005 = 5).            *)
(* Time is an integer number of milliseconds.  Opacity is an integer in    *)
(* 1/300000 (see OpacityOne).                                              *)
(*                                                                         *)
(* Shader weights (values in [0,1]) are integers in 1/1000; shader         *)
(* arithmetic is fixed point, every division rounding down.                *)
(*                                                                         *)
(* Sampled points are kept as the grid cell they come from, tagged with    *)
(* the index of the chip (0 for the CTA); the jittered coordinates are not *)
(* tracked.  A NaN position (JS undefined stored in a Float32Array) is the *)
(* distinguished point NaNPt.                                              *)
(***************************************************************************)
EXTENDS Integers, Sequences, FiniteSets, TLC

\* ------------------------------------------------------------------ bounds
\* Number of engine instances (effect runs) a behaviour may create.
MaxInst == 3
\* Stand-in for the 22000 particles of poolRef / actorRef.
PoolSize == 5
\* Largest pool tried by the builder specification.
MaxPool == 7
\* Last millisecond the clock may reach.
MaxNow == 900
\* Largest number of chips laid out for the builder specification.
MaxChips == 3
\* Distance between the progress values at which a weight is compared
\* with its value at the next one.
GridStep == 50

\* ------------------------------------------------------- program constants
\* Length units per CSS pixel.
Px == 4 * 5
spacingCta == 100
spacingTarget == 100
spacingStart == 120
jitterCta == 44
jitterTarget == 48
jitterStart == 24
\* devicePixelRatio in quarters; the cap min(devicePixelRatio, 2).
DprUnit == 2 * 2
dprCap == 8
idleHoldMs == 150
idleFadeMs == 600
startThresh == 20
fadeStart == 9500
fadeSpan == 500
progressEps == 5
\* useScrollProgress: easeOut(0.15) is the lerp factor; the commit threshold.
lerpT == 1500
commitEps == 10
\* Progress, weights of the eases and headline opacities: 1 is ProgOne.
ProgOne == 100 * 100
\* CTAOverlay: the fade-in starts at 0.95 and takes 0.05.
overlayStart == 9500
overlaySpan == 500
\* Headline sequencing of HeroChipsToButton and of the simple variant.
explodeStart == 6800
ctaLineStart == 9200
simpleCtaLineStart == 9200
\* finalAlpha = OpacityOne means opacity 1 (fadeSpan * idleFadeMs).
OpacityOne == fadeSpan * idleFadeMs

Max(a, b) == IF a >= b THEN a ELSE b
Min(a, b) == IF a <= b THEN a ELSE b
Abs(a) == IF a >= 0 THEN a ELSE -a

NaNPt == [c |-> 0, x |-> -1, y |-> -1]

\* ------------------------------------------------------------ sampling
\* Coordinates s/2, s/2+s, ... <= len - s/2 visited by one grid loop.
GridAxis(len, s) ==
  IF len < s THEN {} ELSE { s \div 2 + k * s : k \in 0 .. ((len - s) \div s) }

GridPts(rect, s) == GridAxis(rect.w * Px, s) \X GridAxis(rect.h * Px, s)

Jit(j) == {-j, 0, j}

\* (dx*dx + dy*dy) <= 1.0 with dx = (jx-cx)/max(1,rx), rx = 0.9 * w/2.
InsideEllipse(jx, jy, rect) ==
  LET W  == rect.w * Px
      H  == rect.h * Px
      RX == Max(Px, (9 * W) \div 20)
      RY == Max(Px, (9 * H) \div 20)
      ex == 2 * jx - W
      ey == 2 * jy - H
  IN  ex * ex * RY * RY + ey * ey * RX * RX <= 4 * RX * RX * RY * RY

CanKeep(p, rect, j) ==
  \E a \in Jit(j), b \in Jit(j) : InsideEllipse(p[1] + a, p[2] + b, rect)
CanDrop(p, rect, j) ==
  \E a \in Jit(j), b \in Jit(j) : ~InsideEllipse(p[1] + a, p[2] + b, rect)

\* The sets of grid cells one sampling pass can retain.
KeptSets(rect, s, j) ==
  { K \in SUBSET GridPts(rect, s) :
      \A p \in GridPts(rect, s) :
         IF p \in K THEN CanKeep(p, rect, j) ELSE CanDrop(p, rect, j) }

Tag(c, p) == [c |-> c, x |-> p[1], y |-> p[2]]

\* Every order shuffleXY can leave the points in (Fisher-Yates: all of them).
shuffleXY(K) ==
  { f \in [1 .. Cardinality(K) -> K] :
      \A a, b \in 1 .. Cardinality(K) : a # b => f[a] # f[b] }

\* Scan order of the nested loops: rows (y) outside, columns (x) inside.
RECURSIVE ScanOrder(_)
ScanOrder(K) ==
  IF K = {} THEN <<>>
  ELSE LET p == CHOOSE q \in K :
                  \A r \in K : q.y < r.y \/ (q.y = r.y /\ q.x <= r.x)
       IN  <<p>> \o ScanOrder(K \ {p})

TaggedSet(c, K) == { Tag(c, p) : p \in K }

\* One chip's possible (target sequence, start sequence) pairs.
ChipOutcomes(c, rect) ==
  { [t |-> tq, s |-> ScanOrder(TaggedSet(c, SK))] :
      tq \in UNION { shuffleXY(TaggedSet(c, TK)) :
                       TK \in KeptSets(rect, spacingTarget, jitterTarget) },
      SK \in KeptSets(rect, spacingStart, jitterStart) }

\* The samples of the first n chips: one outcome per chip, in chip order.
RECURSIVE SamplesUpTo(_, _)
SamplesUpTo(chipRects, n) ==
  IF n = 0 THEN { [targets |-> <<>>, starts |-> <<>>] }
  ELSE { [targets |-> Append(p.targets, o.t), starts |-> Append(p.starts, o.s)] :
           p \in SamplesUpTo(chipRects, n - 1),
           o \in ChipOutcomes(n, chipRects[n]) }

perChipSamples(chipRects) == SamplesUpTo(chipRects, Len(chipRects))

insideRoundRect(x, y, r) ==
  LET W  == r.w * Px
      H  == r.h * Px
      rx == Max(r.r, Min(W - r.r, x))
      ry == Max(r.r, Min(H - r.r, y))
      cx == IF x < r.r THEN r.r ELSE IF x > W - r.r THEN W - r.r ELSE rx
      cy == IF y < r.r THEN r.r ELSE IF y > H - r.r THEN H - r.r ELSE ry
  IN  \/ (x >= r.r /\ x <= W - r.r /\ y >= 0 /\ y <= H)
      \/ (y >= r.r /\ y <= H - r.r /\ x >= 0 /\ x <= W)
      \/ (x - cx) * (x - cx) + (y - cy) * (y - cy) <= r.r * r.r

\* A CTA sampler that pushes the jittered point without testing it.
CtaEmitAlways(p, rect, J) == { <<p[1] + a, p[2] + b>> : a \in J, b \in J }

\* The coordinates the CTA sampler can push for grid point p when rand(-j, j)
\* takes its values in J: the jittered point if it is inside, else p.
CtaEmit(p, rect, J) ==
  { IF insideRoundRect(p[1] + a, p[2] + b, rect)
    THEN <<p[1] + a, p[2] + b>> ELSE p : a \in J, b \in J }

\* The sets of points pushed for the grid points of sequence cells.
RECURSIVE CtaPointSets(_, _, _)
CtaPointSets(cells, rect, J) ==
  IF cells = <<>> THEN { {} }
  ELSE { K \cup {Tag(0, q)} :
           K \in CtaPointSets(Tail(cells), rect, J),
           q \in CtaEmit(<<Head(cells).x, Head(cells).y>>, rect, J) }

\* ctaRect is <<>> (null) or <<rect>>; J: the values rand(-j, j) takes.
ctaTargets(ctaRect, J) ==
  IF ctaRect = <<>> THEN { <<>> }
  ELSE UNION { shuffleXY(K) :
         K \in CtaPointSets(
                 ScanOrder(TaggedSet(0,
                   { p \in GridPts(ctaRect[1], spacingCta) :
                       insideRoundRect(p[1], p[2], ctaRect[1]) })),
                 ctaRect[1], J) }

\* ------------------------------------------------------------ the builder
\* source[(k % (source.length/2))*2]: k % 0 is NaN in JS, source[NaN] is
\* undefined, and a Float32Array stores undefined as NaN.
AtMod(source, k) ==
  IF Len(source) = 0 THEN NaNPt ELSE source[(k % Len(source)) + 1]

\* A tiling that repeats the last sample instead of wrapping around.
tileToClamped(n, source) ==
  [i \in 1 .. n |->
     IF Len(source) = 0 THEN NaNPt ELSE source[Min(i, Len(source))]]

tileTo(n, source) == [i \in 1 .. n |-> AtMod(source, i - 1)]

makeKey(cta, samples) ==
  <<2 * Len(cta), Len(samples.targets), Len(samples.starts)>>

EmptyData ==
  [st |-> "empty", starts |-> <<>>, targetsChip |-> <<>>, targetsCTA |-> <<>>,
   targetsCloud |-> <<>>, colors |-> <<>>]

\* The chip (0-based) the two loops of fillBuffers take particle w from, and
\* the index they take modulo the chip's sample count.
BuilderChip(w, pool, nChips) ==
  LET numChips == Max(1, nChips)
      actorsPerChip == pool \div numChips
  IN  IF w < numChips * actorsPerChip THEN w \div actorsPerChip ELSE nChips - 1

BuilderK(w, pool, nChips) ==
  LET numChips == Max(1, nChips)
      actorsPerChip == pool \div numChips
  IN  IF w < numChips * actorsPerChip THEN w % actorsPerChip ELSE w

\* The arrays fillBuffers uploads when it does not return early.
BuildArrays(pool, cta, samples) ==
  LET n == Len(samples.targets)
  IN  [st           |-> "filled",
       starts       |-> [i \in 1 .. pool |->
                           AtMod(samples.starts[BuilderChip(i - 1, pool, n) + 1],
                                 BuilderK(i - 1, pool, n))],
       targetsChip  |-> [i \in 1 .. pool |->
                           AtMod(samples.targets[BuilderChip(i - 1, pool, n) + 1],
                                 BuilderK(i - 1, pool, n))],
       targetsCTA   |-> tileTo(pool, cta),
       targetsCloud |-> [i \in 1 .. pool |-> "scatter"],
       colors       |-> [i \in 1 .. pool |-> "rgb"]]

\* The early return of fillBuffers.
NotReady(cta, samples) == Len(cta) = 0 \/ Len(samples.targets) = 0

\* chipIndex of the vertex shader for vertex id (0-based).
ShaderChipIndex(id, uSplit, uNumChips) ==
  id \div Max(1, uSplit \div Max(1, uNumChips))

\* ------------------------------------------------- vertex shader: weights
\* Weight units per 1.0.
Wt == 10 * 10 * 10

clamp(x, lo, hi) == Max(lo, Min(hi, x))

\* clamp(num / den, 0.0, 1.0) as a weight.
Frac(num, den) == clamp((num * Wt) \div den, 0, Wt)

\* smoothstep(0.0, 1.0, t) = t*t*(3 - 2t) for a weight t.
smoothstep01(t) == (((t * t) \div Wt) * (3 * Wt - 2 * t)) \div Wt

\* smoothstep(e0, e1, x)
smoothstep(e0, e1, x) == smoothstep01(Frac(x - e0, e1 - e0))

t1(uT) == Frac(uT, 2200)
tExplode(uT) == Frac(uT - 6800, 1000)
tCTAphase(uT) == Frac(uT - 7000, 2100)

\* uGStart, uGEnd (progress units), uLate (weight) as render uploads them.
uGStart == <<0, 1400, 2800>>
uGEnd == <<1400, 2800, 4200>>
uLate == 600

\* uGCount for chipRects.length = n.
GCount(n) ==
  LET chipCountDyn == Max(0, n)
      g0 == Min(3, chipCountDyn)
      g1 == Min(3, Max(0, chipCountDyn - g0))
      g2 == Max(0, chipCountDyn - g0 - g1)
  IN  <<g0, g1, g2>>

\* The group (1..3) whose window the shader applies to chipIndex, the
\* group-local index and the group's chip count.
GateOf(chipIndex, uGCount) ==
  LET g0count == Max(1, uGCount[1])
      g1count == Max(1, uGCount[2])
      g2count == Max(1, uGCount[3])
      g0endIdx == g0count - 1
      g1endIdx == g0count + g1count - 1
  IN  IF chipIndex <= g0endIdx
      THEN [group |-> 1, groupIndex |-> chipIndex, gCount |-> g0count]
      ELSE IF chipIndex <= g1endIdx
      THEN [group |-> 2, groupIndex |-> chipIndex - g0count, gCount |-> g1count]
      ELSE [group |-> 3, groupIndex |-> chipIndex - (g0count + g1count),
            gCount |-> g2count]

\* gStart, gEnd and the staggered interval [s, eWin] of chipIndex.
ChipWindow(chipIndex, uGCount) ==
  LET g      == GateOf(chipIndex, uGCount)
      gStart == uGStart[g.group]
      gEnd   == uGEnd[g.group]
      window == Max(1, gEnd - gStart)
      baseS  == gStart + (g.groupIndex * window) \div g.gCount
      baseE  == gStart + ((g.groupIndex + 1) * window) \div g.gCount
  IN  [gStart |-> gStart, gEnd |-> gEnd,
       s      |-> baseS + ((baseE - baseS) * uLate) \div Wt,
       eWin   |-> Min(gEnd, baseE + 400)]

\* tChipPhase of a particle of chipIndex at progress uT.
tChipPhase(chipIndex, uGCount, uT) ==
  LET w == ChipWindow(chipIndex, uGCount)
  IN  smoothstep01(Frac(uT - w.s, Max(1, w.eWin - w.s)))

\* Amplitudes as functions of the scatter weight te and the destination
\* weight tc: idleAmp in 1/(1000 Wt^2), chipJamp in px/(10 Wt^2), ctaJamp in
\* px/(10 Wt).
idleAmp(te, tc) == 15 * (Wt - te) * (Wt - tc)
chipJamp(te, tc) == 24 * (Wt - te) * (Wt - tc)
\* A CTA jitter that is not damped.
ctaJampUndamped(tc) == 11 * Wt

ctaJamp(tc) == 11 * (Wt - tc)

\* ------------------------------------------------ vertex shader: position
\* A vec2 in length units, or NaN (both components).
Vec(x, y) == [nan |-> FALSE, x |-> x, y |-> y]
NaNVec == [nan |-> TRUE, x |-> 0, y |-> 0]

\* The attribute value read for a buffer entry.
PtVec(pt) == IF pt = NaNPt THEN NaNVec ELSE Vec(pt.x, pt.y)

\* a + b, and a + (dx, dy); NaN propagates.
VAdd(a, b) == IF a.nan \/ b.nan THEN NaNVec ELSE Vec(a.x + b.x, a.y + b.y)

\* mix(a, b, w) = a*(1-w) + b*w for a weight w; NaN*0 is NaN.
mix(a, b, w) ==
  IF a.nan \/ b.nan THEN NaNVec
  ELSE Vec((a.x * (Wt - w) + b.x * w) \div Wt, (a.y * (Wt - w) + b.y * w) \div Wt)

\* floor(sqrt(n)) by Newton's iteration from x.
RECURSIVE ISqrtFrom(_, _)
ISqrtFrom(n, x) ==
  LET y == (x + n \div x) \div 2
  IN  IF y >= x THEN x ELSE ISqrtFrom(n, y)

ISqrt(n) == IF n <= 0 THEN 0 ELSE ISqrtFrom(n, n)

\* normalize(vec2(0.0001, 0.0001) + d) with components as weights: the
\* offset is below the length unit and decides the direction only for d = 0.
normalize(d) ==
  IF d.nan THEN NaNVec
  ELSE LET len == ISqrt(d.x * d.x + d.y * d.y)
       IN  IF len = 0 THEN Vec(707, 707)
           ELSE Vec((d.x * Wt) \div len, (d.y * Wt) \div len)

\* vec2(cos(ang), sin(ang)) for ang = seed * 2 pi, seed a weight.
SeedDir(seed) ==
  CASE seed < Wt \div 4       -> Vec(Wt, 0)
    [] seed < Wt \div 2       -> Vec(0, Wt)
    [] seed < (3 * Wt) \div 4 -> Vec(-Wt, 0)
    [] OTHER                  -> Vec(0, -Wt)

\* A jitter vector: (sin, cos) values sv (weights) times an amplitude whose
\* upper limit is lim length units and whose damped fraction is the weight
\* amp; the sines take seed as argument, so a NaN seed gives NaN.
Jitter(sv, lim, amp, seedNaN) ==
  IF seedNaN THEN NaNVec
  ELSE Vec((((sv[1] * amp) \div Wt) * lim) \div Wt,
           (((sv[2] * amp) \div Wt) * lim) \div Wt)

\* step(d, r * 1.2) for start point pt (chip coordinates) and its chip's
\* centre and radius min(width, height) / 2.
WithinAura(pt, rect) ==
  LET cx == (rect.w * Px) \div 2
      cy == (rect.h * Px) \div 2
      r  == (Min(rect.w, rect.h) * Px) \div 2
  IN  25 * ((pt.x - cx) * (pt.x - cx) + (pt.y - cy) * (pt.y - cy))
        <= 36 * r * r

\* strength = within * life, life = 1 - smoothstep(0, 0.8, tExplode).
auraStrength(uT, within) ==
  IF within THEN Wt - smoothstep01(Frac(tExplode(uT) * 5, Wt * 4)) ELSE 0

\* gl_PointSize = max(2.4, 5.0 - 3.5 * aura), in 1/10 px.
pointSize(aura) == Max(24, 50 - (35 * aura) \div Wt)

\* The weight of burstColor in the colour: min(1, aura * 1.2).
burstTint(aura) == Min(Wt, (aura * 12) \div 10)

\* gl_Position before the mapping to clip space, for vertex id with
\* attributes a = [start, tChip, tCTA, cloud] (vectors), uniforms
\* u = [uT, uSplit, uNumChips, uGCount] and e: the values the hash of the
\* start (seed), the chip geometry (within, dirC) and the sines and cosines
\* of uTick (idle, jc, jt) take.
VertexPos(id, a, u, e) ==
  LET seedNaN   == a.start.nan
      te        == tExplode(u.uT)
      tc        == tCTAphase(u.uT)
      dir       == SeedDir(e.seed)
      burst     == ((((t1(u.uT) * t1(u.uT)) \div Wt)
                      * (((80 * Wt + 60 * e.seed) * Px) \div Wt)) \div Wt)
      wob       == ((((2 * e.seed - Wt) * 5 * Px) \div Wt) * t1(u.uT)) \div Wt
      burstPos0 == IF seedNaN THEN NaNVec
                   ELSE VAdd(a.start, Vec((dir.x * burst) \div Wt + wob,
                                          (dir.y * burst) \div Wt + wob))
      strength  == auraStrength(u.uT, e.within)
      burstPos1 == VAdd(burstPos0,
                        Vec((((e.dirC.x * strength) \div Wt) * 82 * Px) \div Wt,
                            (((e.dirC.y * strength) \div Wt) * 82 * Px) \div Wt))
      chipIndex == ShaderChipIndex(id, u.uSplit, u.uNumChips)
      w         == ChipWindow(chipIndex, u.uGCount)
      pre       == Wt - smoothstep(w.gStart, w.gStart + 600, u.uT)
      burstPos  == mix(burstPos1, a.cloud, (pre * 85) \div 100)
      tChip     == tChipPhase(chipIndex, u.uGCount, u.uT)
      idle      == (((idleAmp(te, tc) \div Wt) * e.idle) \div Wt) \div 1000
      tChipPhaseIdle == clamp(tChip + idle, 0, Wt)
      edgeBias  == smoothstep01(Frac(tChip * 5, Wt * 3))
      jChip     == Jitter(e.jc, 48, chipJamp(te, tc) \div (24 * Wt), seedNaN)
      jCTA      == Jitter(e.jt, 22, ctaJamp(tc) \div 11, seedNaN)
      tChipJ    == VAdd(a.tChip, jChip)
      tCTAJ     == VAdd(a.tCTA, jCTA)
      tgtChip   == mix(burstPos, tChipJ, tChipPhaseIdle)
      explodeFactor == (te * (Wt - (6 * tc) \div 10)) \div Wt
      chipToCloud == mix(tgtChip, a.cloud, explodeFactor)
      tgt       == mix(chipToCloud, tCTAJ, tc)
      pos       == mix(burstPos, tgt, Max(Max(tChipPhaseIdle, te), tc))
      n         == IF tgt.nan \/ pos.nan THEN NaNVec
                   ELSE normalize(Vec(tgt.x - pos.x, tgt.y - pos.y))
  IN  VAdd(pos, Vec((((n.x * (Wt - edgeBias)) \div Wt) * 2 * Px) \div Wt,
                    (((n.y * (Wt - edgeBias)) \div Wt) * 2 * Px) \div Wt))

\* ------------------------------------------------------------------ state
VARIABLES
  layout,     \* DOM: the measured chip rectangles, in chip order
  comp,       \* the mounted component: props, memoised samples, pending effect
  refs,       \* buffersReadyRef, lastProgressRef, lastActiveMsRef
  pool,       \* poolRef.current = actorRef.current
  insts,      \* the closure of every run of the GL effect
  cur,        \* the instance whose cleanup React holds (0: none)
  nInst,      \* number of effect runs so far
  queue,      \* the animation frame callbacks, in handle order
  frameLeft,  \* callbacks at the head of queue still to run in this frame
  gl,         \* the WebGL2 context of the canvas
  out,        \* canvas opacity; the callback run and the draw call issued by
              \* the step that led here (none after any other step); seen:
              \* time and progress of the frames drawn within the idle hold
  now,        \* performance.now(), ms
  dom,        \* the stage's clientWidth/clientHeight (px), devicePixelRatio
              \* (1/4), the canvas backing size, the GL viewport,
              \* cssSizeRef, and the ResizeObservers: the instances whose
              \* observer observes the stage (ro), the ones with a
              \* notification not yet delivered (pending)
  host        \* the host page: the scene's -rect.top and height and the
              \* window's innerHeight (px); targetRef, currentRef and the
              \* progress state of useScrollProgress and whether the last
              \* tick called setProgress; progressRef and the simple
              \* variant's timelineProgressRef; the opacity of the CTA
              \* overlay, of the five headline lines and of the simple
              \* variant's two; variant: which hero page this is; last:
              \* the handler that ran last

vars == <<layout, comp, refs, pool, insts, cur, nInst, queue, frameLeft, gl,
          out, now, dom, host>>

BufNames == {"start", "targetChip", "targetCta", "targetCloud", "color"}

EmptySamples == [targets |-> <<>>, starts |-> <<>>]

FreshInst ==
  [alive |-> FALSE, cta |-> <<>>, samples |-> EmptySamples, chipRects |-> <<>>,
   progress |-> 0, dataKey |-> <<>>, raf |-> 0, prog |-> "none", log |-> {}]

\* A draw call: the instance issuing it, the geometry its closure holds, the
\* uniforms, the content of its own buffers (own), the instance whose
\* buffers the vertex attributes point at (src; 0: none, -1: a foreign
\* buffer) and their content (data).
NoDraw ==
  [inst |-> 0, src |-> 0, prog |-> 0, count |-> 0, uT |-> 0, uSplit |-> 0,
   uNumChips |-> 0, uGCount |-> <<0, 0, 0>>, cta |-> <<>>,
   samples |-> EmptySamples,
   uRes |-> [w |-> 0, h |-> 0], viewport |-> [w |-> 0, h |-> 0],
   canvas |-> [w |-> 0, h |-> 0],
   own |-> EmptyData, data |-> EmptyData]

\* A callback run: whose it was, whether that instance was still set up,
\* whether its program had linked, what fillBuffers did, whether it drew.
NoCb == [kind |-> "none", inst |-> 0, alive |-> FALSE, linked |-> FALSE,
         fill |-> "none", drew |-> FALSE]

NoBinding == [inst |-> 0, name |-> "none"]

Insts == 1 .. MaxInst

\* out after a step that ran no frame callback: the canvas keeps its
\* opacity, no callback ran and no draw call was issued.
Quiet(o) ==
  [opacity |-> o.opacity, draw |-> NoDraw, cb |-> NoCb, seen |-> o.seen]

\* The entries of S, the log of drawn frames, not older than the idle hold
\* at time t.
Recent(S, t) == { e \in S : e.t >= t - idleHoldMs }

\* ------------------------------------------------ animation frame callbacks
\* A handle is the position of its callback in queue; 0 is a spent handle.
AdjRaf(r, k) == IF r = k THEN 0 ELSE IF r > k THEN r - 1 ELSE r

RemoveAt(q, k) ==
  [n \in 1 .. (Len(q) - 1) |-> IF n < k THEN q[n] ELSE q[n + 1]]

\* A cleanup that forgets to cancel the frame callback.
cancelNothing(w, h) == w

\* cancelAnimationFrame(h) on world w = [insts, queue, frameLeft].
cancelAnimationFrame(w, h) ==
  IF h = 0 THEN w
  ELSE [insts     |-> [i \in Insts |->
                         [w.insts[i] EXCEPT !.raf = AdjRaf(w.insts[i].raf, h)]],
        queue     |-> RemoveAt(w.queue, h),
        frameLeft |-> IF h <= w.frameLeft THEN w.frameLeft - 1 ELSE w.frameLeft]

\* What is left of the closure of a torn-down instance.  With no callback
\* pending it is unreachable and the record returns to its blank value; with
\* only its deferred fill pending, what fillBuffers reads is kept (the
\* sampled sets and the program's attribute locations).
Collect(I, q) ==
  [i \in Insts |->
     IF I[i].alive THEN I[i]
     ELSE IF \A n \in 1 .. Len(q) : q[n].inst # i THEN FreshInst
     ELSE IF \E n \in 1 .. Len(q) : q[n].inst = i /\ q[n].kind = "render"
          THEN I[i]
     ELSE [FreshInst EXCEPT !.cta = I[i].cta, !.samples = I[i].samples,
                            !.prog = I[i].prog]]

\* ------------------------------------------------------------- buildProgram
ProgLog(outcome) ==
  CASE outcome = "ok"   -> {}
    [] outcome = "vs"   -> {"Vertex shader compile error:", "Program link error:",
                            "WebGL program link error:"}
    [] outcome = "fs"   -> {"Fragment shader compile error:", "Program link error:",
                            "WebGL program link error:"}
    [] outcome = "link" -> {"Program link error:", "WebGL program link error:"}

Linked(outcome) == outcome = "ok"

\* -------------------------------------------------------------- fillBuffers
\* A fill that records the key and the ready flag but uploads nothing.
fillBuffersKeyOnly(i, I, R, G) ==
  [insts |-> [I EXCEPT ![i].dataKey = makeKey(I[i].cta, I[i].samples)],
   refs  |-> [R EXCEPT !.buffersReady = ~NotReady(I[i].cta, I[i].samples)],
   gl    |-> G,
   res   |-> IF NotReady(I[i].cta, I[i].samples) THEN "notready" ELSE "ok"]

\* fillBuffers of instance i on instances I, refs R and context G.
fillBuffers(i, I, R, G) ==
  LET c   == I[i]
      key == makeKey(c.cta, c.samples)
  IN  IF NotReady(c.cta, c.samples)
      THEN [insts |-> [I EXCEPT ![i].dataKey = key],
            refs  |-> [R EXCEPT !.buffersReady = FALSE],
            gl    |-> G,
            res   |-> "notready"]
      ELSE
        LET data == BuildArrays(pool, c.cta, c.samples)
            own  == \A n \in BufNames : <<i, n>> \in G.buffers
            \* bindBuffer of a deleted buffer is an INVALID_OPERATION: the
            \* binding stays, bufferData writes whatever is bound, and
            \* vertexAttribPointer points the attribute at it.
            b    == G.binding
            G1   == IF own
                    THEN [G EXCEPT !.data[i] = data,
                                   !.binding = [inst |-> i, name |-> "color"],
                                   !.attribs = IF Linked(c.prog) THEN i ELSE @]
                    ELSE [G EXCEPT !.data = IF b.inst = 0 THEN @
                                            ELSE [@ EXCEPT ![b.inst].st = "corrupt"],
                                   !.attribs = IF ~Linked(c.prog) THEN @
                                               ELSE IF b.inst = 0 THEN 0 ELSE -1]
        IN  [insts |-> [I EXCEPT ![i].dataKey = key],
             refs  |-> [R EXCEPT !.buffersReady = TRUE],
             gl    |-> G1,
             res   |-> "ok"]

\* ------------------------------------------------------------------ render
visibleAlpha(p) ==
  IF p < fadeStart THEN fadeSpan ELSE Max(0, fadeSpan - (p - fadeStart))

baseAlpha(p) == IF p > startThresh THEN visibleAlpha(p) ELSE 0

\* An idle fade that starts at once, without the hold.
activityAlphaNoHold(idleMs) == idleFadeMs - Min(idleFadeMs, idleMs)

activityAlpha(idleMs) ==
  IF idleMs > idleHoldMs
  THEN idleFadeMs - Min(idleFadeMs, idleMs - idleHoldMs)
  ELSE idleFadeMs

finalAlpha(p, idleMs) ==
  Max(0, Min(OpacityOne, baseAlpha(p) * activityAlpha(idleMs)))

\* A render that refills on every frame.
KeyChangedAlways(c) == TRUE

\* if (currentKey !== dataKeyRef.current)
KeyChanged(c) == makeKey(c.cta, c.samples) # c.dataKey

\* A render that never checks the ready flag.
SkipDrawNever(R) == FALSE

\* if (!buffersReadyRef.current) return
SkipDraw(R) == ~R.buffersReady

\* An idle bookkeeping that never restarts the hold.
NextActiveMsKept(R, pNow, nowMs) == R.lastActiveMs

\* lastActiveMsRef after the idle bookkeeping of one drawn frame.
NextActiveMs(R, pNow, nowMs) ==
  IF Abs(pNow - R.lastProgress) > progressEps THEN nowMs ELSE R.lastActiveMs

\* The vertex count handed to drawArrays.
DrawCount == pool

\* One run of render for instance i; w = [insts, queue, frameLeft] is the
\* world after the callback was taken off the callback list.
render(i, w) ==
  LET q1  == Append(w.queue, [kind |-> "render", inst |-> i])
      I1  == [w.insts EXCEPT ![i].raf = Len(q1)]
      f   == IF KeyChanged(I1[i]) THEN fillBuffers(i, I1, refs, gl)
             ELSE [insts |-> I1, refs |-> refs, gl |-> gl, res |-> "none"]
      c   == f.insts[i]
      act == NextActiveMs(f.refs, c.progress, now)
  IN  /\ queue' = q1
      /\ frameLeft' = w.frameLeft
      /\ insts' = f.insts
      /\ gl' = f.gl
      /\ IF SkipDraw(f.refs)
         THEN /\ refs' = f.refs
              /\ out' = [Quiet(out) EXCEPT
                           !.cb = [kind |-> "render", inst |-> i,
                                   alive |-> c.alive, linked |-> Linked(c.prog),
                                   fill |-> f.res, drew |-> FALSE]]
         ELSE /\ refs' = [f.refs EXCEPT !.lastProgress = c.progress,
                                        !.lastActiveMs = act]
              /\ out' = [opacity |-> finalAlpha(c.progress, now - act),
                         seen |-> Recent(out.seen, now)
                                    \cup {[t |-> now, p |-> c.progress]},
                         draw |-> [inst |-> i, src |-> f.gl.attribs,
                                   prog |-> f.gl.program, count |-> DrawCount,
                                   uT |-> c.progress, uSplit |-> pool,
                                   uNumChips |-> Max(1, Len(c.samples.targets)),
                                   uGCount |-> GCount(Len(c.chipRects)),
                                   cta |-> c.cta, samples |-> c.samples,
                                   uRes |-> dom.cssSize,
                                   viewport |-> dom.viewport,
                                   canvas |-> dom.canvas,
                                   own |-> f.gl.data[i],
                                   data |-> IF f.gl.attribs > 0
                                            THEN f.gl.data[f.gl.attribs]
                                            ELSE EmptyData],
                         cb |-> [kind |-> "render", inst |-> i,
                                 alive |-> c.alive, linked |-> Linked(c.prog),
                                 fill |-> f.res, drew |-> TRUE]]

\* The deferred requestAnimationFrame(() => fillBuffers()) of instance i.
deferredFill(i, w) ==
  LET f == fillBuffers(i, w.insts, refs, gl)
  IN  /\ queue' = w.queue
      /\ frameLeft' = w.frameLeft
      /\ insts' = Collect(f.insts, w.queue)
      /\ refs' = f.refs
      /\ gl' = f.gl
      /\ out' = [Quiet(out) EXCEPT
                   !.cb = [kind |-> "fill", inst |-> i,
                           alive |-> w.insts[i].alive,
                           linked |-> Linked(w.insts[i].prog),
                           fill |-> f.res, drew |-> FALSE]]

\* ------------------------------------------------- effect cleanup and setup
\* A cleanup that leaves the render callback requested.
CleanupKeepsLoop(i, w, G) ==
  [insts     |-> [w.insts EXCEPT ![i].alive = FALSE],
   queue     |-> w.queue,
   frameLeft |-> w.frameLeft,
   gl        |-> [G EXCEPT
                    !.buffers  = @ \ { <<i, n>> : n \in BufNames },
                    !.data     = [@ EXCEPT ![i] = EmptyData],
                    !.binding  = IF @.inst = i THEN NoBinding ELSE @,
                    !.attribs  = IF @ = i THEN 0 ELSE @,
                    !.programs = @ \ {i}]]

\* The cleanup function returned by the effect, for instance i, on world
\* w = [insts, queue, frameLeft] and context G.
Cleanup(i, w, G) ==
  LET w1 == cancelAnimationFrame(w, w.insts[i].raf)
  IN  [insts     |-> Collect([w1.insts EXCEPT ![i].alive = FALSE], w1.queue),
       queue     |-> w1.queue,
       frameLeft |-> w1.frameLeft,
       gl        |-> [G EXCEPT
                        !.buffers  = @ \ { <<i, n>> : n \in BufNames },
                        !.data     = [@ EXCEPT ![i] = EmptyData],
                        !.binding  = IF @.inst = i THEN NoBinding ELSE @,
                        !.attribs  = IF @ = i THEN 0 ELSE @,
                        !.programs = @ \ {i}]]

\* An effect body that requests the render callback before the fill.
SetupRenderFirst(j, o, w, G) ==
  LET q1 == Append(w.queue, [kind |-> "render", inst |-> j])
      q2 == Append(q1, [kind |-> "fill", inst |-> j])
  IN  [insts     |-> [w.insts EXCEPT ![j] =
                        [alive |-> TRUE, cta |-> comp.ctaTargets,
                         samples |-> comp.samples, chipRects |-> comp.chipRects,
                         progress |-> comp.progress, dataKey |-> <<>>,
                         raf |-> Len(q1), prog |-> o, log |-> ProgLog(o)]],
       queue     |-> q2,
       frameLeft |-> w.frameLeft,
       gl        |-> [G EXCEPT
                        !.shaders  = @ \cup {<<j, "vs">>, <<j, "fs">>},
                        !.programs = @ \cup {j},
                        !.program  = IF Linked(o) THEN j ELSE @,
                        !.buffers  = @ \cup { <<j, n>> : n \in BufNames }]]

\* The effect body for a new instance j with program build outcome o.
Setup(j, o, w, G) ==
  LET q1 == Append(w.queue, [kind |-> "fill", inst |-> j])
      q2 == Append(q1, [kind |-> "render", inst |-> j])
  IN  [insts     |-> [w.insts EXCEPT ![j] =
                        [alive |-> TRUE, cta |-> comp.ctaTargets,
                         samples |-> comp.samples, chipRects |-> comp.chipRects,
                         progress |-> comp.progress, dataKey |-> <<>>,
                         raf |-> Len(q2), prog |-> o, log |-> ProgLog(o)]],
       queue     |-> q2,
       frameLeft |-> w.frameLeft,
       gl        |-> [G EXCEPT
                        !.shaders  = @ \cup {<<j, "vs">>, <<j, "fs">>},
                        !.programs = @ \cup {j},
                        !.program  = IF Linked(o) THEN j ELSE @,
                        !.buffers  = @ \cup { <<j, n>> : n \in BufNames }]]

World == [insts |-> insts, queue |-> queue, frameLeft |-> frameLeft]

\* ------------------------------------------------------------------ resize
\* max(1, floor(len * min(devicePixelRatio || 1, 2))), dpr in 1/DprUnit.
Backing(len, dpr) ==
  Max(1, (len * Min(IF dpr = 0 THEN DprUnit ELSE dpr, dprCap)) \div DprUnit)

\* A resize that leaves the GL viewport as it was.
resizeKeepsViewport(D) ==
  [D EXCEPT !.canvas   = [w |-> Backing(D.stage.w, D.dpr),
                          h |-> Backing(D.stage.h, D.dpr)],
            !.cssSize  = D.stage]

\* resize(): one reading of the stage and of devicePixelRatio sets the
\* canvas backing size, the viewport (from the canvas) and cssSizeRef.
resize(D) ==
  LET cv == [w |-> Backing(D.stage.w, D.dpr), h |-> Backing(D.stage.h, D.dpr)]
  IN  [D EXCEPT !.canvas = cv, !.viewport = cv, !.cssSize = D.stage]

\* new ResizeObserver(resize); ro.observe(stage) for instance j: the first
\* notification is queued unless the stage has no size.
observe(D, j) ==
  [D EXCEPT !.ro = @ \cup {j},
            !.pending = IF D.stage.w = 0 /\ D.stage.h = 0
                        THEN @ ELSE @ \cup {j}]

\* ro.disconnect() of instance i.
disconnect(D, i) == [D EXCEPT !.ro = @ \ {i}, !.pending = @ \ {i}]

\* ----------------------------------------------------------------- actions
\* chipRects as the host builds them on each of its renders: measured rects,
\* unmeasured ones (zero size) filtered out.
HostChipRects(l) == SelectSeq(l, LAMBDA r : r.w > 0 /\ r.h > 0)

\* The host passes a newly built chipRects array on every render, so the
\* [chipRects] dependency of perChipSamples and of the effect never matches.
ChipRectsIsNewArray == TRUE

\* The host re-renders with progress p; newCta: setCtaState(c) caused it;
\* J: the values the jitter of the CTA sampler takes.
HostRender(p, newCta, c, J) ==
  /\ comp.mounted # "gone"
  /\ frameLeft = 0
  /\ ~comp.effectPending
  /\ nInst < MaxInst
  /\ LET first    == comp.mounted = "no"
         rects    == HostChipRects(layout)
         ctaRect  == IF newCta THEN <<c>> ELSE comp.ctaRect
         ctaDep   == first \/ newCta
         chipsDep == first \/ ChipRectsIsNewArray
     IN  \E ct \in (IF ctaDep THEN ctaTargets(ctaRect, J) ELSE {comp.ctaTargets}),
            sm \in (IF chipsDep THEN perChipSamples(rects) ELSE {comp.samples}) :
           /\ comp' = [mounted |-> "yes", chipRects |-> rects,
                       ctaRect |-> ctaRect, progress |-> p,
                       ctaTargets |-> ct, samples |-> sm,
                       effectPending |-> first \/ ctaDep \/ chipsDep,
                       resampled |-> chipsDep]
           /\ refs' = IF first
                      THEN [buffersReady |-> FALSE, lastProgress |-> 0,
                            lastActiveMs |-> now]
                      ELSE refs
  /\ out' = Quiet(out)
  /\ UNCHANGED <<layout, pool, insts, cur, nInst, queue, frameLeft, gl, now,
                 dom, host>>

\* React runs the pending effect: cleanup of the previous run, then the body.
CommitEffect(o) ==
  /\ comp.effectPending
  /\ LET w1 == IF cur = 0 THEN World @@ [gl |-> gl] ELSE Cleanup(cur, World, gl)
         w2 == Setup(nInst + 1, o, w1, w1.gl)
     IN  /\ insts' = w2.insts
         /\ queue' = w2.queue
         /\ frameLeft' = w2.frameLeft
         /\ gl' = w2.gl
  /\ cur' = nInst + 1
  /\ nInst' = nInst + 1
  /\ comp' = [comp EXCEPT !.effectPending = FALSE]
  /\ dom' = resize(observe(IF cur # 0 THEN disconnect(dom, cur) ELSE dom,
                           nInst + 1))
  /\ out' = Quiet(out)
  /\ UNCHANGED <<layout, refs, pool, now, host>>

\* The component is removed: React runs the cleanup of the current instance.
Unmount ==
  /\ comp.mounted = "yes"
  /\ ~comp.effectPending
  /\ cur # 0
  /\ LET w1 == Cleanup(cur, World, gl)
     IN  /\ insts' = w1.insts
         /\ queue' = w1.queue
         /\ frameLeft' = w1.frameLeft
         /\ gl' = w1.gl
  /\ cur' = 0
  /\ comp' = [comp EXCEPT !.mounted = "gone"]
  /\ dom' = disconnect(dom, cur)
  /\ out' = Quiet(out)
  /\ UNCHANGED <<layout, refs, pool, nInst, now, host>>

\* The browser starts a frame: the callbacks listed now are the ones it runs.
FrameBegin ==
  /\ frameLeft = 0
  /\ queue # <<>>
  /\ frameLeft' = Len(queue)
  /\ out' = Quiet(out)
  /\ UNCHANGED <<layout, comp, refs, pool, insts, cur, nInst, queue, gl, now,
                 dom, host>>

\* The browser runs the next callback of the frame.
RunCallback ==
  /\ frameLeft > 0
  /\ LET e == queue[1]
         w == [insts     |-> [i \in Insts |->
                                [insts[i] EXCEPT !.raf = AdjRaf(insts[i].raf, 1)]],
               queue     |-> Tail(queue),
               frameLeft |-> frameLeft - 1]
     IN  IF e.kind = "fill" THEN deferredFill(e.inst, w) ELSE render(e.inst, w)
  /\ UNCHANGED <<layout, comp, pool, cur, nInst, now, dom, host>>

\* The chips are laid out anew (fonts, resize): the DOM measurements change.
LayoutChange(l) ==
  /\ l # layout
  /\ layout' = l
  /\ out' = Quiet(out)
  /\ UNCHANGED <<comp, refs, pool, insts, cur, nInst, queue, frameLeft, gl, now,
                 dom, host>>

\* d milliseconds pass.
Tick(d) ==
  /\ now + d <= MaxNow
  /\ now' = now + d
  /\ out' = [Quiet(out) EXCEPT !.seen = Recent(@, now + d)]
  /\ UNCHANGED <<layout, comp, refs, pool, insts, cur, nInst, queue, frameLeft, gl,
                 dom, host>>

\* The stage gets the size s: every observer is notified.
StageResize(s) ==
  /\ s # dom.stage
  /\ dom' = [dom EXCEPT !.stage = s, !.pending = dom.ro]
  /\ out' = Quiet(out)
  /\ UNCHANGED <<layout, comp, refs, pool, insts, cur, nInst, queue, frameLeft,
                 gl, now, host>>

\* window.devicePixelRatio becomes d (another screen): nobody is notified.
DprChange(d) ==
  /\ d # dom.dpr
  /\ dom' = [dom EXCEPT !.dpr = d]
  /\ out' = Quiet(out)
  /\ UNCHANGED <<layout, comp, refs, pool, insts, cur, nInst, queue, frameLeft,
                 gl, now, host>>

\* The browser delivers the notification of instance i's observer, after
\* the frame's animation callbacks: resize() runs.
ResizeNotify(i) ==
  /\ frameLeft = 0
  /\ i \in dom.pending
  /\ dom' = [resize(dom) EXCEPT !.pending = @ \ {i}]
  /\ out' = Quiet(out)
  /\ UNCHANGED <<layout, comp, refs, pool, insts, cur, nInst, queue, frameLeft,
                 gl, now, host>>

\* ------------------------------------------------------- useScrollProgress
\* t^3 for t in 1/ProgOne.
Cube(t) == (((t * t) \div ProgOne) * t) \div ProgOne

\* An ease result v for argument t: 0 only at t <= 0, 1 only at t >= 1.
EaseRange(t, v) ==
  IF t <= 0 THEN 0
  ELSE IF t >= ProgOne THEN ProgOne
  ELSE Max(1, Min(ProgOne - 1, v))

\* 1 - (1 - t)^3
easeOutCubic(t) == EaseRange(t, ProgOne - Cube(ProgOne - t))

\* const alpha = easeOut(0.15)
lerpAlpha == easeOutCubic(lerpT)

\* A target that is not clamped to the scrollable distance.
computeTargetUnclamped(H) ==
  LET h     == Max(1, H.vh)
      total == Max(1, H.height - h)
  IN  (H.top * ProgOne) \div total

\* computeTarget() on the geometry of H.
computeTarget(H) ==
  LET h        == Max(1, H.vh)
      total    == Max(1, H.height - h)
      scrolled == Max(0, Min(total, H.top))
  IN  (scrolled * ProgOne) \div total

\* currentRef + (targetRef - currentRef) * alpha
Lerp(c, t) ==
  IF t >= c THEN c + ((t - c) * lerpAlpha) \div ProgOne
  ELSE c - ((c - t) * lerpAlpha) \div ProgOne

\* The progress the tick closure compares with: the effect runs once
\* (deps [ref]), so tick keeps the progress of the first render, 0.
TickClosureProgress == 0

HostQuiet ==
  /\ out' = Quiet(out)
  /\ UNCHANGED <<layout, comp, refs, pool, insts, cur, nInst, queue, frameLeft,
                 gl, now, dom>>

\* The page is scrolled to -rect.top = t: onScroll sets the target.
Scroll(t) ==
  /\ t # host.top
  /\ host' = [host EXCEPT !.top = t,
                          !.target = computeTarget([host EXCEPT !.top = t]),
                          !.last = "scroll"]
  /\ HostQuiet

\* The window gets innerHeight v: onResize sets the target.
WindowResize(v) ==
  /\ v # host.vh
  /\ host' = [host EXCEPT !.vh = v,
                          !.target = computeTarget([host EXCEPT !.vh = v]),
                          !.last = "resize"]
  /\ HostQuiet

\* The scene gets height h (content change): no event handler runs.
SceneHeight(h) ==
  /\ h # host.height
  /\ host' = [host EXCEPT !.height = h, !.last = "height"]
  /\ HostQuiet

\* The IntersectionObserver callback.
Intersect ==
  /\ host' = [host EXCEPT !.target = computeTarget(host), !.last = "io"]
  /\ HostQuiet

\* tick of useScrollProgress.
HookTick ==
  /\ LET current == Lerp(host.current, host.target)
         commit  == Abs(current - TickClosureProgress) > commitEps
     IN  host' = [host EXCEPT !.current = current,
                             !.progress = IF commit THEN current ELSE @,
                             !.called = commit,
                             !.last = "tick"]
  /\ HostQuiet

\* -------------------------------------------------------------- hero pages
\* An overlay that starts its fade-in at 0.90.
overlayOpacityEarly(p) == Max(0, Min(overlaySpan, p + overlaySpan - overlayStart))

\* CTAOverlay: max(0, min(1, (p - 0.95) / 0.05)), 1 is overlaySpan.
overlayOpacity(p) == Max(0, Min(overlaySpan, p - overlayStart))

\* num / Math.max(0.0001, den)
Ratio(num, den) == (num * ProgOne) \div Max(1, den)

\* t < 0.5 ? 4 t^3 : 1 - (-2t + 2)^3 / 2
easeInOutCubic(t) ==
  EaseRange(t, IF 2 * t < ProgOne THEN 4 * Cube(t)
               ELSE ProgOne - Cube(2 * ProgOne - 2 * t) \div 2)

\* A window whose line stays until 0.02 after the window's end.
windowAlphaLate(p, s, e) ==
  IF p <= s THEN 0 ELSE IF p < e + 200 THEN ProgOne ELSE 0

\* windowAlpha of the headline effect: in over the first quarter of
\* [s, e], out over the last fifth.
windowAlpha(p, s, e) ==
  LET inS  == s
      inE  == s + (e - s) \div 4
      outS == e - (e - s) \div 5
      outE == e
  IN  IF p <= inS THEN 0
      ELSE IF p < inE THEN easeInOutCubic(Ratio(p - inS, inE - inS))
      ELSE IF p < outS THEN ProgOne
      ELSE IF p < outE THEN ProgOne - easeInOutCubic(Ratio(p - outS, outE - outS))
      ELSE 0

\* The opacities tick of the headline effect gives the five lines.
headlineAlphas(p) ==
  LET platformInStart == explodeStart - 200
      platformInEnd   == explodeStart + 600
      platformHoldEnd == Min(9300, ctaLineStart - 400)
      platformOutEnd  == Max(platformHoldEnd + 300, ctaLineStart - 100)
      a3 == IF p < platformInStart THEN 0
            ELSE IF p < platformInEnd
              THEN easeInOutCubic(Ratio(p - platformInStart,
                                        platformInEnd - platformInStart))
            ELSE IF p < platformHoldEnd THEN ProgOne
            ELSE IF p < platformOutEnd
              THEN ProgOne - easeInOutCubic(Ratio(p - platformHoldEnd,
                                                  platformOutEnd - platformHoldEnd))
            ELSE 0
      a4 == IF p >= ctaLineStart /\ p < ctaLineStart + 800
              THEN easeInOutCubic(Ratio(p - ctaLineStart, 800))
            ELSE IF p >= ctaLineStart + 800 THEN ProgOne
            ELSE 0
  IN  << windowAlpha(p, 0, 1400), windowAlpha(p, 1400, 2800),
         windowAlpha(p, 2800, 4200), a3, a4 >>

\* Simple variant: progress mapped onto the timeline [0.68, 1].
mapped(p) == 6800 + (p * (ProgOne - 6800)) \div ProgOne

\* Simple variant: the opacities of the start line and of the final line.
simpleAlphas(tP) ==
  LET outS == Max(0, simpleCtaLineStart - 1400)
      outE == Max(0, simpleCtaLineStart - 500)
      inS  == outE
      inE  == Max(inS + 50, simpleCtaLineStart - 100)
  IN  << IF tP <= outS THEN ProgOne
         ELSE IF tP >= outE THEN 0
         ELSE ProgOne - easeOutCubic(Ratio(tP - outS, outE - outS)),
         IF tP <= inS THEN 0
         ELSE IF tP >= inE THEN ProgOne
         ELSE easeInOutCubic(Ratio(tP - inS, inE - inS)) >>

\* The hook commits progress p: the page renders and its effects mirror p
\* into progressRef and, in the simple variant, into timelineProgressRef.
HeroCommit(p) ==
  /\ p # host.progress
  /\ host' = [host EXCEPT !.progress = p, !.progressRef = p,
                          !.tP = mapped(p), !.last = "commit"]
  /\ HostQuiet

\* tick of CTAOverlay.
OverlayTick ==
  /\ host.variant = "full"
  /\ host' = [host EXCEPT !.overlay = overlayOpacity(host.progressRef),
                          !.last = "overlay"]
  /\ HostQuiet

\* tick of the headline effect of HeroChipsToButton.
HeadlineTick ==
  /\ host.variant = "full"
  /\ host' = [host EXCEPT !.lines = headlineAlphas(host.progressRef),
                          !.last = "headline"]
  /\ HostQuiet

\* The headline part of tick of HeroChipsToButtonSimple.
SimpleTick ==
  /\ host.variant = "simple"
  /\ host' = [host EXCEPT !.simple = simpleAlphas(host.tP),
                          !.last = "simple"]
  /\ HostQuiet

\* ----------------------------------------------------------- input sets
R0 == [w |-> 0, h |-> 0]
R5 == [w |-> 5, h |-> 5]
R6 == [w |-> 6, h |-> 6]
Cta5 == [w |-> 5, h |-> 5, r |-> 50]
Cta10 == [w |-> 10, h |-> 5, r |-> 50]
\* rand(-j, j) = 0: the CTA points stay on their grid points.
NoJitter == {0}

Layouts == { <<R0>>, <<R6>> }
ProgressVals == {0, 3000}
ProgOutcomes == {"ok", "link"}
\* The scene, 1800 px high, at the top of a window 600 px high.
HostInit ==
  [top |-> 0, height |-> 1800, vh |-> 600, target |-> 0, current |-> 0,
   progress |-> 0, called |-> FALSE, progressRef |-> 0, tP |-> mapped(0),
   overlay |-> 0, lines |-> <<ProgOne, 0, 0, 0, 0>>, simple |-> <<ProgOne, 0>>,
   variant |-> "full", last |-> "none"]
\* The stage: 10 px x 5 px.
Stage10 == [w |-> 10, h |-> 5]
\* A canvas element is 300 x 150 until its width and height are set.
CanvasDefault == [w |-> 300, h |-> 150]

InitPage(l, n, h) ==
  /\ layout = l
  /\ comp = [mounted |-> "no", chipRects |-> <<>>, ctaRect |-> <<>>,
             progress |-> 0, ctaTargets |-> <<>>, samples |-> EmptySamples,
             effectPending |-> FALSE, resampled |-> FALSE]
  /\ refs = [buffersReady |-> FALSE, lastProgress |-> 0, lastActiveMs |-> 0]
  /\ pool = n
  /\ insts = [i \in Insts |-> FreshInst]
  /\ cur = 0
  /\ nInst = 0
  /\ queue = <<>>
  /\ frameLeft = 0
  /\ gl = [buffers |-> {}, data |-> [i \in Insts |-> EmptyData],
           binding |-> NoBinding, attribs |-> 0, program |-> 0,
           programs |-> {}, shaders |-> {}]
  /\ out = [opacity |-> OpacityOne, draw |-> NoDraw, cb |-> NoCb, seen |-> {}]
  /\ now = 0
  /\ dom = [stage |-> Stage10, dpr |-> DprUnit, canvas |-> CanvasDefault,
            viewport |-> CanvasDefault, cssSize |-> [w |-> 1, h |-> 1],
            ro |-> {}, pending |-> {}]
  /\ host = h

InitWith(l, n) == InitPage(l, n, HostInit)

Init == InitWith(<<R0>>, PoolSize)

Next ==
  \/ \E p \in ProgressVals : HostRender(p, FALSE, Cta5, NoJitter)
  \/ \E p \in ProgressVals : HostRender(p, TRUE, Cta5, NoJitter)
  \/ \E o \in ProgOutcomes : CommitEffect(o)
  \/ Unmount
  \/ FrameBegin
  \/ RunCallback
  \/ \E l \in Layouts : LayoutChange(l)

Spec == Init /\ [][Next]_vars

\* The builder under every pool size and chip layout: the engine is mounted
\* once, with the CTA measured, and its frames run.
R12 == [w |-> 12, h |-> 6]
BuildRects == {R5, R12}
BuildLayouts == UNION { [1 .. n -> BuildRects] : n \in 1 .. MaxChips }

InitBuild == \E l \in BuildLayouts, n \in 1 .. MaxPool : InitWith(l, n)

NextBuild ==
  \/ comp.mounted = "no" /\ HostRender(0, TRUE, Cta10, NoJitter)
  \/ CommitEffect("ok")
  \/ FrameBegin
  \/ RunCallback

SpecBuild == InitBuild /\ [][NextBuild]_vars

\* The idle fade: the engine is mounted over one measured chip, the host
\* re-renders with a few progress values, frames run and time passes
\* between them.
FadeProgress == {3000, 9750}
FrameMs == 50

InitFade == InitWith(<<R6>>, PoolSize)

NextFade ==
  \/ nInst < MaxInst - 1 /\ \E p \in FadeProgress : HostRender(p, TRUE, Cta5, NoJitter)
  \/ CommitEffect("ok")
  \/ FrameBegin
  \/ RunCallback
  \/ frameLeft = 0 /\ Tick(FrameMs)

SpecFade == InitFade /\ [][NextFade]_vars

\* The vertex shader under every pool size, chip count and sample outcome:
\* the engine is mounted once at one of a few progress values and draws.
\* Up to MaxChips chips of 6 px, the first one possibly of 5 px.
ShadeLayouts ==
  { [i \in 1 .. n |-> IF i = 1 THEN r ELSE R6] :
      n \in 1 .. MaxChips, r \in {R5, R6} }
ShadeProgress == {0, 5000, 9100, 10000}

InitShade == \E l \in ShadeLayouts, n \in 1 .. MaxPool : InitWith(l, n)

NextShade ==
  \/ comp.mounted = "no" /\ \E p \in ShadeProgress : HostRender(p, TRUE, Cta10, NoJitter)
  \/ CommitEffect("ok")
  \/ FrameBegin
  \/ RunCallback

SpecShade == InitShade /\ [][NextShade]_vars

\* The values the shader's hash, the chip geometry and the sines of uTick
\* are let range over.
SinVals == {-Wt, 0, Wt}
TickEnvs == { [idle |-> a, jc |-> <<a, b>>, jt |-> <<b, a>>] : a, b \in SinVals }
CloudPts == {Vec(0, 0), Vec(200, 100)}
SeedEnvs ==
  { [seed |-> sd, within |-> wi, dirC |-> Vec(Wt, 0), cloud |-> c] :
      sd \in {0, Wt \div 2}, wi \in BOOLEAN, c \in CloudPts }

\* The tail of an eased scroll: every host render moves progress on by a
\* step smaller than the idle epsilon.
DriftBase == 3000
DriftStep == progressEps - 2

NextDrift ==
  \/ HostRender(IF comp.mounted = "no" THEN DriftBase
                ELSE comp.progress + DriftStep, TRUE, Cta5, NoJitter)
  \/ CommitEffect("ok")
  \/ FrameBegin
  \/ RunCallback
  \/ frameLeft = 0 /\ Tick(FrameMs)

SpecDrift == InitFade /\ [][NextDrift]_vars

\* The samplers: shapes around the two grid spacings, jittered CTA points.
R4 == [w |-> 4, h |-> 4]
Cta4 == [w |-> 4, h |-> 4, r |-> 40]
SampleLayouts == { <<R4>>, <<R5>>, <<R6>> }
SampleCtas == {Cta4, Cta5, Cta10}
\* Both ends of rand(-j, j) and a value between; never 0, so that a grid
\* point among the CTA points is a fallback.
CtaJitter == {-jitterCta, jitterCta \div 2, jitterCta}

InitSample == \E l \in SampleLayouts : InitWith(l, PoolSize)

NextSample ==
  \/ comp.mounted = "no" /\ \E c \in SampleCtas : HostRender(0, TRUE, c, CtaJitter)
  \/ CommitEffect("ok")
  \/ FrameBegin
  \/ RunCallback

SpecSample == InitSample /\ [][NextSample]_vars

\* Resizes: stage sizes (one without width), pixel ratios 1, 1.5 and 3.
StageSizes == { Stage10, [w |-> 11, h |-> 5], [w |-> 0, h |-> 5] }
Dprs == {DprUnit, DprUnit + 2, 3 * DprUnit}

InitResize == InitWith(<<R6>>, PoolSize)

NextResize ==
  \/ HostRender(0, TRUE, Cta5, NoJitter)
  \/ CommitEffect("ok")
  \/ FrameBegin
  \/ RunCallback
  \/ \E s \in StageSizes : StageResize(s)
  \/ \E d \in Dprs : DprChange(d)
  \/ \E i \in Insts : ResizeNotify(i)

SpecResize == InitResize /\ [][NextResize]_vars

\* The scroll hook: positions above, inside and below the scene, a scene
\* taller and one not taller than the window, a window without height.
ScrollTops == {-100, 0, 300, 2000}
SceneHeights == {600, 1800}
WindowHeights == {0, 600}

NextScroll ==
  \/ \E t \in ScrollTops : Scroll(t)
  \/ \E v \in WindowHeights : WindowResize(v)
  \/ \E h \in SceneHeights : SceneHeight(h)
  \/ Intersect
  \/ HookTick

SpecScroll == Init /\ [][NextScroll]_vars

\* The hero pages: progress on a grid of 0.02, and around the breakpoints of
\* the overlay, of the headline and (mapped) of the simple headline.
HeroStep == 2 * 100
HeroProgress ==
  { k * HeroStep : k \in 0 .. (ProgOne \div HeroStep) }
    \cup {50, 1350, 1450, 5900, 5950, 6250, 9100, 9150, 9250, 9500, 9550,
          9750, 9950}

NextHero ==
  \/ \E p \in HeroProgress : HeroCommit(p)
  \/ OverlayTick
  \/ HeadlineTick
  \/ SimpleTick

InitHero ==
  \E v \in {"full", "simple"} :
    InitPage(<<R0>>, PoolSize, [HostInit EXCEPT !.variant = v])

SpecHero == InitHero /\ [][NextHero]_vars

\* ------------------------------------------------------------------ claims
\* A step in which the browser ran one frame callback.
CallbackStep ==
  frameLeft > 0 /\ frameLeft' = frameLeft - 1 /\ nInst' = nInst /\ cur' = cur

\* C1: a draw call is issued only by an instance whose own buffers hold a
\* fill built from a non-empty destination set and a non-empty cluster list;
\* a fill that finds either empty uploads nothing, leaves the shared ready
\* flag false and is followed by no draw of that callback.
C1_DrawOnlyAfterOwnFill ==
  /\ out.draw.inst # 0 =>
       /\ out.draw.own.st = "filled"
       /\ Len(out.draw.cta) > 0
       /\ Len(out.draw.samples.targets) > 0
  /\ out.cb.fill = "notready" =>
       /\ ~out.cb.drew
       /\ ~refs.buffersReady
       /\ gl.data[out.cb.inst].st = "empty"
  /\ out.cb.drew => refs.buffersReady

\* An earlier instance drew (only a drawn frame moves lastProgressRef); its
\* successor, built from empty geometry, ran a render callback that found
\* the shared flag cleared and did not draw.
C1_Witness ==
  /\ refs.lastProgress # 0
  /\ out.cb.kind = "render" /\ out.cb.inst = 2 /\ out.cb.alive
  /\ ~out.cb.drew
  /\ NotReady(insts[2].cta, insts[2].samples)

\* C2: every draw is issued with the instance's buffers completely built from
\* the geometry its closure holds, the vertex attributes point at those
\* buffers or at none, and once the effect has run for the latest props that
\* geometry is the latest one.
C2_DrawUsesCurrentGeometry ==
  [][ (CallbackStep /\ out'.cb.drew) =>
        /\ out'.draw.own = BuildArrays(pool, out'.draw.cta, out'.draw.samples)
        /\ out'.draw.src # 0 =>
             (out'.draw.src = out'.draw.inst /\ out'.draw.data = out'.draw.own)
        /\ ~comp.effectPending =>
             (out'.draw.cta = comp.ctaTargets /\ out'.draw.samples = comp.samples)
    ]_vars

\* Instance 2 draws from its own buffers, built from the latest props.
C2_Witness ==
  /\ out.cb.drew /\ out.cb.inst = 2
  /\ out.draw.inst = 2 /\ out.draw.src = 2
  /\ ~comp.effectPending

\* C3: a host render in which only progress changes resamples nothing and
\* schedules no new run of the GL effect (no new program, no re-upload).
C3_ProgressAloneRebuildsNothing ==
  [][ ( /\ comp.mounted = "yes"
        /\ comp'.progress # comp.progress
        /\ comp'.chipRects = comp.chipRects
        /\ comp'.ctaRect = comp.ctaRect
        /\ comp'.ctaTargets = comp.ctaTargets ) =>
        ( /\ ~comp'.resampled
          /\ comp'.samples = comp.samples
          /\ ~comp'.effectPending )
    ]_vars

\* C4: of an instance that was torn down no render callback is listed or
\* runs, none of its five buffers is live and its program is deleted.
TornDown(i) == i \in 1 .. nInst /\ i # cur

C4_TeardownReleases ==
  /\ \A i \in Insts : TornDown(i) =>
       /\ \A n \in 1 .. Len(queue) :
            ~(queue[n].kind = "render" /\ queue[n].inst = i)
       /\ \A n \in BufNames : <<i, n>> \notin gl.buffers
       /\ i \notin gl.programs
  /\ out.cb.kind = "render" => out.cb.alive

\* Instance 1 was torn down in the middle of a frame: its fill is still to
\* run in this frame, its render callback was cancelled out of it.
C4_Witness ==
  /\ nInst = 2 /\ cur = 2
  /\ frameLeft = 1
  /\ queue[1] = [kind |-> "fill", inst |-> 1]

\* C5: an instance whose program failed to compile or link reports it, never
\* marks the buffers ready and never issues a draw call.
C5_NoDrawWithoutProgram ==
  /\ \A i \in Insts : (insts[i].alive /\ ~Linked(insts[i].prog)) =>
       insts[i].log # {}
  /\ (out.cb.kind # "none" /\ ~out.cb.linked) =>
       (~out.cb.drew /\ out.cb.fill # "ok")

\* The points of sample sequence q.
Points(q) == { q[n] : n \in 1 .. Len(q) }

\* C6: after a fill the builder accepted, with C clusters and P particles,
\* each of the first C * floor(P/C) particles holds the target and the start
\* of cluster floor(w / floor(P/C)) at index (w mod floor(P/C)) modulo the
\* length of that cluster's sequence, and every remaining particle holds a
\* target and a start that are elements of the last cluster's sequences.
C6_EveryParticleFromItsCluster ==
  \A i \in Insts : gl.data[i].st = "filled" =>
    LET d   == gl.data[i]
        s   == insts[i].samples
        C   == Len(s.targets)
        per == pool \div C
    IN  \A w \in 0 .. pool - 1 :
          IF w < C * per
          THEN LET tq == s.targets[(w \div per) + 1]
                   sq == s.starts[(w \div per) + 1]
               IN  /\ Len(tq) > 0 /\ Len(sq) > 0
                   /\ d.targetsChip[w + 1] = tq[((w % per) % Len(tq)) + 1]
                   /\ d.starts[w + 1] = sq[((w % per) % Len(sq)) + 1]
          ELSE /\ d.targetsChip[w + 1] \in Points(s.targets[C])
               /\ d.starts[w + 1] \in Points(s.starts[C])

\* C7: when some cluster's target or start sequence is empty while the
\* cluster list is not, a fill either reports not ready (uploads nothing) or
\* writes for every particle a position that is a sample of some cluster.
C7_EmptyClusterHandled ==
  \A i \in Insts :
    LET s == insts[i].samples
        C == Len(s.targets)
    IN  ( /\ gl.data[i].st = "filled"
          /\ \E c \in 1 .. C : Len(s.targets[c]) = 0 \/ Len(s.starts[c]) = 0 ) =>
        \A w \in 1 .. pool :
          /\ \E c \in 1 .. C : gl.data[i].targetsChip[w] \in Points(s.targets[c])
          /\ \E c \in 1 .. C : gl.data[i].starts[w] \in Points(s.starts[c])

\* C8: in every draw, for every vertex id in [0,P) the chip index the vertex
\* shader derives from the uniforms lies in [0,C) and is the cluster the
\* builder took the particle's samples from.
C8_ShaderIndexIsBuilderCluster ==
  out.draw.inst # 0 =>
    LET C == Len(out.draw.samples.targets)
    IN  \A id \in 0 .. out.draw.count - 1 :
          /\ ShaderChipIndex(id, out.draw.uSplit, out.draw.uNumChips) \in 0 .. C - 1
          /\ ShaderChipIndex(id, out.draw.uSplit, out.draw.uNumChips)
               = BuilderChip(id, pool, C)

\* C9: after every successful fill the five arrays hold pool-size entries,
\* targetsCTA[i] is the CTA sample at index i modulo the CTA sample count,
\* and every draw call is issued for pool-size vertices.
C9_ArraysArePoolSized ==
  /\ \A i \in Insts : gl.data[i].st = "filled" =>
       LET d == gl.data[i]
           c == insts[i].cta
       IN  /\ Len(d.starts) = pool /\ Len(d.targetsChip) = pool
           /\ Len(d.targetsCTA) = pool /\ Len(d.targetsCloud) = pool
           /\ Len(d.colors) = pool
           /\ Len(c) > 0
           /\ \A w \in 0 .. pool - 1 : d.targetsCTA[w + 1] = c[(w % Len(c)) + 1]
  /\ out.draw.inst # 0 => out.draw.count = pool

\* A draw from buffers in which the CTA samples were tiled more than twice
\* over, the last round incomplete.
C9_Witness ==
  /\ out.cb.drew
  /\ out.draw.own.st = "filled"
  /\ pool > 2 * Len(out.draw.cta)
  /\ pool % Len(out.draw.cta) # 0

\* C10: a frame drawn with the progress of the previously drawn frame, that
\* progress inside the visibility window, does not restart the idle clock
\* and sets the opacity to 1 while the idle time is at most 150 ms, to a
\* value that falls linearly with the idle time and is positive below
\* 750 ms, and to 0 from 750 ms on.
C10_IdleFade ==
  [][ ( /\ CallbackStep
        /\ out'.cb.drew
        /\ out'.draw.uT = refs.lastProgress
        /\ out'.draw.uT > startThresh
        /\ out'.draw.uT < fadeStart ) =>
        LET idle == now - refs.lastActiveMs
        IN  /\ refs'.lastActiveMs = refs.lastActiveMs
            /\ idle <= idleHoldMs => out'.opacity = OpacityOne
            /\ (idle > idleHoldMs /\ idle < idleHoldMs + idleFadeMs) =>
                 /\ out'.opacity = OpacityOne - fadeSpan * (idle - idleHoldMs)
                 /\ out'.opacity > 0
            /\ idle >= idleHoldMs + idleFadeMs => out'.opacity = 0
    ]_vars

\* A frame drawn exactly 750 ms after the last progress change, with the
\* progress of the frame before it: the canvas has just become transparent.
C10_Witness ==
  /\ out.cb.drew
  /\ out.draw.uT = refs.lastProgress
  /\ out.draw.uT > startThresh /\ out.draw.uT < fadeStart
  /\ now - refs.lastActiveMs = idleHoldMs + idleFadeMs
  /\ out.opacity = 0

\* C11: whenever the progress values of the frames drawn during the last
\* 150 ms differ by more than the epsilon, the frame just drawn has activity
\* factor 1: its opacity is the visibility-window value alone.
C11_MovementKeepsOpacity ==
  ( /\ out.cb.drew
    /\ \E a, b \in out.seen : Abs(a.p - b.p) > progressEps ) =>
  out.opacity = baseAlpha(out.draw.uT) * idleFadeMs

\* C12: a frame drawn with a progress that differs by more than the epsilon
\* from that of the previously drawn frame sets the hold timer to the time
\* of the frame, and its opacity is the visibility-window value alone:
\* 0 up to progress 0.002, 1 below 0.95, then falling linearly to 0 at 1.
C12_MovementRestoresOpacity ==
  [][ ( /\ CallbackStep
        /\ out'.cb.drew
        /\ Abs(out'.draw.uT - refs.lastProgress) > progressEps ) =>
        /\ refs'.lastActiveMs = now
        /\ out'.opacity =
             idleFadeMs *
               ( IF out'.draw.uT <= startThresh THEN 0
                 ELSE IF out'.draw.uT < fadeStart THEN fadeSpan
                 ELSE Max(0, fadeSpan - (out'.draw.uT - fadeStart)) )
    ]_vars

\* The second instance draws its first frame with a progress other than
\* that of the frame drawn 50 ms before, late enough for the fade to have
\* run out, and the canvas is back at the visibility-window value.
C12_Witness ==
  /\ out.cb.drew /\ out.draw.inst = 2
  /\ now >= idleHoldMs + idleFadeMs + FrameMs
  /\ \E e \in out.seen :
       e.t = now - FrameMs /\ Abs(e.p - out.draw.uT) > progressEps
  /\ \A e \in out.seen : e.t = now => e.p = out.draw.uT
  /\ refs.lastActiveMs = now
  /\ out.opacity > 0

\* The position the vertex shader computes for vertex id of the draw call
\* just issued, under seed environment se and tick environment tk.
DrawnUniforms ==
  [uT |-> out.draw.uT, uSplit |-> out.draw.uSplit,
   uNumChips |-> out.draw.uNumChips, uGCount |-> out.draw.uGCount]

DrawnPos(id, se, tk) ==
  VertexPos(id,
            [start |-> PtVec(out.draw.data.starts[id + 1]),
             tChip |-> PtVec(out.draw.data.targetsChip[id + 1]),
             tCTA  |-> PtVec(out.draw.data.targetsCTA[id + 1]),
             cloud |-> se.cloud],
            DrawnUniforms, se @@ tk)

\* A draw call whose vertex attributes point at filled buffers.
Drawn == out.draw.inst # 0 /\ out.draw.data.st = "filled"

\* C13: in a draw at progress 0 the position computed for every particle is
\* its start position.
C13_StartAtProgressZero ==
  (Drawn /\ out.draw.uT = 0) =>
    \A id \in 0 .. out.draw.count - 1 : \A se \in SeedEnvs, tk \in TickEnvs :
      DrawnPos(id, se, tk) = PtVec(out.draw.data.starts[id + 1])

\* C14: in a draw at progress 1 the destination weight is 1, the CTA jitter
\* amplitude is 0 and the position computed for every particle is its
\* targetsCTA entry, whatever the seed, the chip geometry and the tick.
C14_DestinationAtProgressOne ==
  (Drawn /\ out.draw.uT = 10000) =>
    /\ tCTAphase(out.draw.uT) = Wt
    /\ ctaJamp(tCTAphase(out.draw.uT)) = 0
    /\ \A id \in 0 .. out.draw.count - 1 : \A se \in SeedEnvs, tk \in TickEnvs :
         DrawnPos(id, se, tk) = PtVec(out.draw.data.targetsCTA[id + 1])

\* The group (1..3) of the cluster the builder took the samples of particle
\* id of the draw call just issued from.
OwnGroup(id) ==
  GateOf(BuilderChip(id, out.draw.uSplit, Len(out.draw.samples.targets)),
         out.draw.uGCount).group

\* The window the shader applies to particle id of that draw call.
DrawnWindow(id) ==
  ChipWindow(ShaderChipIndex(id, out.draw.uSplit, out.draw.uNumChips),
             out.draw.uGCount)

\* C15: the three group windows are non-empty, increasing and do not
\* overlap, and in every draw the interval [s, eWin] the shader derives for
\* a particle lies within the window of the particle's own group:
\* gStart <= s < eWin <= gEnd.
C15_IntervalInsideOwnWindow ==
  /\ \A g \in 1 .. 3 : uGStart[g] < uGEnd[g]
  /\ \A g \in 1 .. 2 : uGEnd[g] <= uGStart[g + 1]
  /\ Drawn =>
       \A id \in 0 .. out.draw.count - 1 :
         /\ uGStart[OwnGroup(id)] <= DrawnWindow(id).s
         /\ DrawnWindow(id).s < DrawnWindow(id).eWin
         /\ DrawnWindow(id).eWin <= uGEnd[OwnGroup(id)]

\* tChipPhase of particle id of the draw call just issued, at progress p.
DrawnChipPhase(id, p) ==
  tChipPhase(ShaderChipIndex(id, out.draw.uSplit, out.draw.uNumChips),
             out.draw.uGCount, p)

\* C16: with the geometry of a draw fixed, tChipPhase of every particle does
\* not decrease from one progress value to the next, is 0 at the start of
\* the window of the particle's group and 1 at its end.
C16_ChipPhaseMonotone ==
  Drawn =>
    \A id \in 0 .. out.draw.count - 1 :
      /\ \A k \in 0 .. (10000 \div GridStep) - 1 :
           DrawnChipPhase(id, k * GridStep)
             <= DrawnChipPhase(id, (k + 1) * GridStep)
      /\ DrawnChipPhase(id, uGStart[OwnGroup(id)]) = 0
      /\ DrawnChipPhase(id, uGEnd[OwnGroup(id)]) = Wt

\* The tick at which every sine is 0.
TickZero == [idle |-> 0, jc |-> <<0, 0>>, jt |-> <<0, 0>>]

\* Weights at which the amplitudes are compared.
WeightVals == {0, Wt \div 4, Wt \div 2, (3 * Wt) \div 4, Wt}

InRoundedRect(x, y, rect) ==
  LET W == rect.w * Px
      H == rect.h * Px
  IN  /\ 0 <= x /\ x <= W /\ 0 <= y /\ y <= H
      /\ \A cx \in {rect.r, W - rect.r}, cy \in {rect.r, H - rect.r} :
            ( /\ (IF cx = rect.r THEN x < cx ELSE x > cx)
              /\ (IF cy = rect.r THEN y < cy ELSE y > cy) )
            => (x - cx) * (x - cx) + (y - cy) * (y - cy) <= rect.r * rect.r

\* The grid points the CTA sampler visits in rect.
CtaGrid(rect) == GridPts(rect, spacingCta)

\* C17: every point the destination sampler returned for a rounded rectangle
\* whose corner radius is at most half its width and half its height lies
\* inside that rounded rectangle, and a point that is not a grid point is a
\* jittered point within the jitter range of a grid point.
C17_CtaPointsInside ==
  (comp.mounted = "yes" /\ comp.ctaRect # <<>>
     /\ 2 * comp.ctaRect[1].r <= comp.ctaRect[1].w * Px
     /\ 2 * comp.ctaRect[1].r <= comp.ctaRect[1].h * Px)
  => \A n \in 1 .. Len(comp.ctaTargets) :
       LET q == comp.ctaTargets[n]
       IN  /\ InRoundedRect(q.x, q.y, comp.ctaRect[1])
           /\ \E g \in CtaGrid(comp.ctaRect[1]) :
                 /\ InRoundedRect(g[1], g[2], comp.ctaRect[1])
                 /\ Abs(q.x - g[1]) <= jitterCta
                 /\ Abs(q.y - g[2]) <= jitterCta

\* The sampler returned a fallback grid point next to a jittered point.
C17_Witness ==
  /\ comp.mounted = "yes" /\ comp.ctaRect = <<Cta10>>
  /\ \E a, b \in 1 .. Len(comp.ctaTargets) :
        /\ <<comp.ctaTargets[a].x, comp.ctaTargets[a].y>> \in CtaGrid(Cta10)
        /\ <<comp.ctaTargets[b].x, comp.ctaTargets[b].y>> \notin CtaGrid(Cta10)

\* C18: for every shape of positive width and positive height the sampler
\* returned at least one point (the CTA's destination points, and each
\* chip's target points and start points).
C18_SamplerNeverEmpty ==
  comp.mounted = "yes"
  => /\ (comp.ctaRect # <<>> /\ comp.ctaRect[1].w > 0 /\ comp.ctaRect[1].h > 0)
          => Len(comp.ctaTargets) > 0
     /\ \A n \in 1 .. Len(comp.chipRects) :
          (comp.chipRects[n].w > 0 /\ comp.chipRects[n].h > 0)
          => /\ Len(comp.samples.targets[n]) > 0
             /\ Len(comp.samples.starts[n]) > 0

\* The step issued a draw call.
DrewFrame == out.cb.kind = "render" /\ out.cb.drew

\* C20: at each draw there is one stage measurement (layout width and
\* height, device pixel ratio) from which the resolution uniform, the canvas
\* backing size and the GL viewport all derive: the uniform is the layout
\* size, the backing size is max(1, floor(layout size x min(ratio, 2))) per
\* axis and the viewport is the backing size.
C20_OneSizeSnapshot ==
  DrewFrame
  => \E s \in StageSizes, d \in Dprs :
       LET k == IF d > 2 * DprUnit THEN 2 * DprUnit ELSE d
           W == IF (s.w * k) \div DprUnit < 1 THEN 1 ELSE (s.w * k) \div DprUnit
           H == IF (s.h * k) \div DprUnit < 1 THEN 1 ELSE (s.h * k) \div DprUnit
       IN  /\ out.draw.uRes = s
           /\ out.draw.canvas = [w |-> W, h |-> H]
           /\ out.draw.viewport = [w |-> W, h |-> H]

\* A frame of the second or a later engine instance drawn after a resize
\* notification: a size other than the first, at a ratio above 1, while
\* the stage has moved on and a notification is still to be delivered.
C20_Witness ==
  /\ DrewFrame /\ out.draw.inst >= 2
  /\ out.draw.uRes = [w |-> 11, h |-> 5]
  /\ out.draw.canvas = [w |-> 16, h |-> 7]
  /\ dom.stage # out.draw.uRes
  /\ dom.pending # {}

\* The positions in the callback list of instance i's callbacks of kind k.
Listed(i, k) ==
  { n \in 1 .. Len(queue) : queue[n].inst = i /\ queue[n].kind = k }

\* C21: the effect body does not fill: while the deferred fill of a set-up
\* instance is listed the instance has recorded no content key, and the
\* fill is listed ahead of the instance's render callback; an instance that
\* draws has filled before and has no fill left to run; a fill that a
\* set-up instance ran left its buffers completely built when its callback
\* ended.
C21_FillDeferredOneFrame ==
  /\ \A i \in Insts : (insts[i].alive /\ Listed(i, "fill") # {}) =>
       /\ insts[i].dataKey = <<>>
       /\ \A n \in Listed(i, "fill"), r \in Listed(i, "render") : n < r
  /\ out.cb.drew =>
       /\ insts[out.cb.inst].dataKey # <<>>
       /\ Listed(out.cb.inst, "fill") = {}
  /\ (out.cb.alive /\ out.cb.fill = "ok") =>
       /\ insts[out.cb.inst].dataKey
            = makeKey(insts[out.cb.inst].cta, insts[out.cb.inst].samples)
       /\ gl.data[out.cb.inst]
            = BuildArrays(pool, insts[out.cb.inst].cta, insts[out.cb.inst].samples)

\* The deferred fill of the second instance ran and filled, with the
\* instance's first render callback still to come.
C21_Witness ==
  /\ out.cb.kind = "fill" /\ out.cb.inst = 2 /\ out.cb.alive
  /\ out.cb.fill = "ok"
  /\ Listed(2, "render") # {}
  /\ insts[2].dataKey # <<>>

\* C27: no callback that a torn-down instance requested runs its body: every
\* callback that runs belongs to an instance still set up, and a step that
\* runs a callback leaves the ready flag and the vertex attribute bindings
\* alone unless the current instance ran it.
C27_NoCallbackAfterTeardown ==
  [][ CallbackStep =>
        /\ out'.cb.alive
        /\ (refs'.buffersReady # refs.buffersReady \/ gl'.attribs # gl.attribs)
             => out'.cb.inst = cur
    ]_vars

\* The render callbacks listed.
RenderListed == { n \in 1 .. Len(queue) : queue[n].kind = "render" }

\* C28: at most one render callback is listed at any moment, it belongs to
\* the instance currently set up, none is listed once the component is
\* unmounted, and a render callback that ran is listed again exactly once.
C28_OneRenderLoop ==
  /\ Cardinality(RenderListed) <= 1
  /\ \A n \in RenderListed : queue[n].inst = cur /\ insts[cur].raf = n
  /\ comp.mounted = "gone" => RenderListed = {}
  /\ out.cb.kind = "render" =>
       Cardinality(Listed(out.cb.inst, "render")) = 1

\* The render callback of the third instance ran and is listed again, after
\* two teardowns, alone.
C28_Witness ==
  /\ out.cb.kind = "render" /\ out.cb.inst = 3 /\ cur = 3
  /\ Cardinality(RenderListed) = 1
  /\ Listed(3, "render") = RenderListed

\* C29: a render callback that finds the ready flag cleared issues no draw
\* call (no clear, no uniform upload) and leaves the canvas opacity, the
\* last-seen progress, the last-active timestamp and the GL buffers as they
\* were; if the instance had recorded its content key before, fillBuffers
\* is not called and only the callback list and the instance's handle
\* change.
C29_NotReadyFrameIsInert ==
  [][ (CallbackStep /\ out'.cb.kind = "render" /\ ~out'.cb.drew) =>
        LET i == out'.cb.inst
        IN  /\ out'.draw = NoDraw
            /\ out'.opacity = out.opacity
            /\ refs'.lastProgress = refs.lastProgress
            /\ refs'.lastActiveMs = refs.lastActiveMs
            /\ gl'.data = gl.data
            /\ insts[i].dataKey = makeKey(insts[i].cta, insts[i].samples) =>
                  /\ out'.cb.fill = "none"
                  /\ refs' = refs
                  /\ gl' = gl
                  /\ \A j \in Insts : j # i => insts'[j].dataKey = insts[j].dataKey
                  /\ insts'[i].dataKey = insts[i].dataKey
    ]_vars

\* After an earlier instance drew, the current instance, built from empty
\* geometry and with its key recorded, ran a frame without fill or draw.
C29_Witness ==
  /\ refs.lastProgress # 0
  /\ out.cb.kind = "render" /\ out.cb.alive /\ ~out.cb.drew
  /\ out.cb.fill = "none"
  /\ out.cb.inst = cur
  /\ insts[cur].dataKey = makeKey(insts[cur].cta, insts[cur].samples)

\* C30: the buffers, the program, the two shaders and the resize observer of
\* every torn-down instance are released; the live GPU objects are those of
\* the instance currently set up.
C30_TeardownReleasesAll ==
  \A i \in Insts : TornDown(i) =>
    /\ \A n \in BufNames : <<i, n>> \notin gl.buffers
    /\ i \notin gl.programs
    /\ i \notin dom.ro
    /\ <<i, "vs">> \notin gl.shaders
    /\ <<i, "fs">> \notin gl.shaders

\* C22: the scroll target, the smoothed value and the reported progress of
\* useScrollProgress lie in [0, 1] after every event and tick, for every
\* scene height and window height.
C22_ProgressInUnitInterval ==
  /\ 0 <= host.target /\ host.target <= ProgOne
  /\ 0 <= host.current /\ host.current <= ProgOne
  /\ 0 <= host.progress /\ host.progress <= ProgOne

\* The scene is not taller than the window, the page was scrolled past it
\* and the hook has reported progress beyond one half on the way to 1.
C22_Witness ==
  /\ host.height <= host.vh
  /\ host.top > 0
  /\ host.target = ProgOne
  /\ host.last = "tick" /\ host.called
  /\ host.progress > ProgOne \div 2

\* C25: after the first commit, a tick calls setProgress only if the
\* smoothed value differs by more than 0.001 from the progress most
\* recently committed.
C25_CommitOnlyVisibleMoves ==
  [][ (host.progress # 0 /\ host'.last = "tick" /\ host'.called)
      => Abs(host'.current - host.progress) > commitEps
    ]_vars

\* C23: for the progress p the overlay tick has just used, the overlay
\* opacity is 0 for p <= 0.95, the canvas visibility-window alpha is 1 for
\* p < 0.95, their sum is 1 for p in [0.95, 1], and at p = 1 the overlay is
\* at 1 and the canvas at 0.
C23_OverlayComplementsCanvas ==
  host.last = "overlay" =>
    LET p == host.progressRef
        o == host.overlay * fadeSpan
        v == visibleAlpha(p) * overlaySpan
        one == fadeSpan * overlaySpan
    IN  /\ p <= 9500 => o = 0
        /\ p < 9500 => v = one
        /\ p >= 9500 => o + v = one
        /\ p = ProgOne => (o = one /\ v = 0)

\* Half way through the cross-fade: both at one half.
C23_Witness ==
  /\ host.last = "overlay"
  /\ host.progressRef = 9750
  /\ 2 * host.overlay = overlaySpan
  /\ 2 * visibleAlpha(host.progressRef) = fadeSpan

\* The lines of sequence a with non-zero opacity.
Showing(a) == { n \in 1 .. Len(a) : a[n] # 0 }

\* C26: at most one of the five headline lines of HeroChipsToButton, and at
\* most one of the two lines of the simple variant, has non-zero opacity.
C26_HeadlinesNeverCross ==
  /\ Cardinality(Showing(host.lines)) <= 1
  /\ Cardinality(Showing(host.simple)) <= 1

\* The fourth line is on its way out just before the fifth starts.
C26_Witness ==
  /\ host.last = "headline"
  /\ host.lines[4] > 0 /\ host.lines[4] < ProgOne
  /\ host.progressRef > 8800

\* C24: in a draw at a progress outside the scatter window [0.68, 0.78] the
\* aura strength of every particle with respect to its own chip is 0, the
\* point size is the base size and the colour is not tinted.
C24_AuraOnlyInScatterWindow ==
  (Drawn /\ (out.draw.uT < 6800 \/ out.draw.uT > 7800)) =>
    \A id \in 0 .. out.draw.count - 1 :
      LET st   == out.draw.data.starts[id + 1]
          aura == auraStrength(out.draw.uT,
                    WithinAura(st, insts[out.draw.inst].chipRects[st.c]))
      IN  st # NaNPt =>
            /\ aura = 0
            /\ pointSize(aura) = 50
            /\ burstTint(aura) = 0
====
